---- MODULE Spec2Model ----
(***************************************************************************)
(* Model of gpt_decorators/gpt_callable_func.py: the decorator factory     *)
(* gpt_callable_func, the schema synthesis _convert_params_to_schema and   *)
(* the pass-through wrappers _Wrapper / _AsyncWrapper.                     *)
(*                                                                         *)
(* One decorator (one call of gpt_callable_func) is modelled.  The set     *)
(* objects the caller passed as include / exclude are heap objects that    *)
(* the decorator keeps for every later application, so their contents are  *)
(* state variables.                                                        *)
(***************************************************************************)
EXTENDS Integers, Sequences, FiniteSets, TLC

\* ---------------------------------------------------------------- bounds
MaxWraps  == 2      \* applications of the one decorator that return a wrapper
MaxCalls  == 1      \* invocations of wrappers

\* ------------------------------------------------------- Python values
None == "None"
empty == "inspect.Parameter.empty"
Ellipsis == "..."

POSITIONAL_OR_KEYWORD == "POSITIONAL_OR_KEYWORD"
KEYWORD_ONLY == "KEYWORD_ONLY"
VAR_POSITIONAL == "VAR_POSITIONAL"
VAR_KEYWORD == "VAR_KEYWORD"

\* Kinds of annotation a parameter can carry, by what the code tests on it:
\*   empty      no annotation (inspect.Parameter.empty, itself a plain class)
\*   class      a plain class such as int (type(annotation) is type)
\*   enum       an Enum class (a class whose metaclass is EnumMeta)
\*   str        a non-class annotation, e.g. the forward reference "K"
\*   annotated  typing.Annotated[int, "text"]
\*   field      a pydantic FieldInfo
AnnKinds == {empty, "class", "enum", "str", "annotated", "field"}

\* Names the caller can put in include / exclude.
CfgNames == {"self", "a", "b"}

\* An inspect.Parameter
Param(name, kind, default, annotation) ==
    [name |-> name, kind |-> kind, default |-> default, annotation |-> annotation]

\* a positional-or-keyword parameter of a plain class type
Pos(name, default) == Param(name, POSITIONAL_OR_KEYWORD, default, "class")

\* a first parameter named self, by its annotation
Self(annotation) == Param("self", POSITIONAL_OR_KEYWORD, empty, annotation)

\* The parameter lists of the callables handed to the decorator.
SigAB      == <<Pos("a", empty), Pos("b", "1")>>              \* (a, b=1)
SigDefault == <<Pos("a", "1"), Pos("b", "1")>>                \* (a=1, b=1)
SigVar     == <<Param("args", VAR_POSITIONAL, empty, empty),
                Param("a", KEYWORD_ONLY, empty, "class"),
                Param("kwargs", VAR_KEYWORD, empty, empty)>>  \* (*args, a, **kwargs)
SigMethod  == <<Self(empty), Pos("a", empty)>>                \* (self, a)
SigClass   == <<Self("class"), Pos("a", "1")>>                \* (self: K, a=1)
SigStr     == <<Self("str"), Pos("a", empty)>>                \* (self: "K", a)
SigLate    == <<Pos("a", empty), Self(empty)>>                \* (a, self)

Signatures == {SigAB, SigDefault, SigVar, SigMethod, SigClass, SigStr, SigLate}

\* The callables handed to the decorator: each signature as a def, and one
\* async def with a docstring.
Funcs ==
    [name : {"f"}, doc : {None}, parameters : Signatures, is_coroutine : {FALSE}]
    \cup [name : {"f"}, doc : {"doc"}, parameters : {SigDefault},
          is_coroutine : {TRUE}]

\* The argument a wrapper is called with.
Args == {0, 1}

\* An Optional[Set[str]] value: None, or a set with its members.
NoneSet == [none |-> TRUE, members |-> {}]
SetOf(S) == [none |-> FALSE, members |-> S]

ConfigSets == {NoneSet} \cup {SetOf(S) : S \in SUBSET CfgNames}

VARIABLES
    description,  \* the decorator's description option
    include,      \* contents of the caller's include object (None or a set)
    exclude,      \* contents of the caller's exclude object (None or a set)
    include0,     \* contents of include when the decorator was created
    exclude0,     \* contents of exclude when the decorator was created
    wrappers,     \* the wrappers the decorator has returned, in order
    outcome,      \* how the latest application of the decorator ended
    invocations,  \* log of the invocations of underlying callables
    coroutines,   \* coroutine objects returned by _AsyncWrapper.__call__
    result        \* what the latest wrapper call handed to its caller

vars == <<description, include, exclude, include0, exclude0, wrappers, outcome,
          invocations, coroutines, result>>

\* ------------------------------------------------ _convert_params_to_schema
ParamNamesOf(parameters) == {parameters[i].name : i \in 1..Len(parameters)}

\* Python truthiness of an Optional[Set[str]]
Truthy(s) == ~s.none /\ s.members # {}

\* type(p.annotation) is type
TypeIsType(annotation) == annotation \in {empty, "class"}

\* the overlap test written as a comparison of the two sets
OverlapError_equal(inc, exc) ==
    Truthy(inc) /\ Truthy(exc) /\ inc.members = exc.members

\* lines 16-17
OverlapError(inc, exc) == Truthy(inc) /\ Truthy(exc) /\ inc.members \cap exc.members # {}

\* the membership test failing only when no name of include is declared
NotFoundError_all(parameters, inc) ==
    /\ Truthy(inc)
    /\ \A each \in inc.members : each \notin ParamNamesOf(parameters)

\* lines 18-20
NotFoundError(parameters, inc) ==
    \E each \in (IF Truthy(inc) THEN inc.members ELSE {}) : each \notin ParamNamesOf(parameters)

\* lines 27-31: the parameters the loop passes over with "continue": a first
\* parameter named self or cls whose annotation is a plain class, and the
\* *args / **kwargs collectors
Skipped(parameters, idx) ==
    LET p == parameters[idx]
    IN  \/ idx = 1 /\ p.name \in {"self", "cls"} /\ TypeIsType(p.annotation)
        \/ p.kind \in {VAR_POSITIONAL, VAR_KEYWORD}

\* lines 37-56: the (annotation, Field(default, description)) entry
PropertyEntry(p) ==
    LET has_default == p.default # empty
    IN  IF p.annotation = "field"
        THEN [annotation |-> "class", default |-> "field.default",
              description |-> "field.description"]
        ELSE [annotation |-> CASE p.annotation = "annotated" -> "class"
                               [] p.annotation = "enum" -> "Literal[member names]"
                               [] OTHER -> p.annotation,
              default |-> IF has_default THEN p.default ELSE Ellipsis,
              description |-> IF p.annotation = "annotated" THEN "text" ELSE None]

\* lines 25-56: the loop over parameters.items(), from index idx on.
\* required_params is the object bound at line 22; the result carries its
\* final contents, the properties dict, and the error that ended the loop.
RECURSIVE AnalyseFrom(_, _, _, _, _)
AnalyseFrom(parameters, idx, required_params, exc, properties) ==
    IF idx > Len(parameters)
    THEN [raised |-> "none", required_params |-> required_params,
          properties |-> properties, analysed |-> Len(parameters)]
    ELSE
      LET p == parameters[idx]
          has_default == p.default # empty
      IN  IF Skipped(parameters, idx)
          THEN AnalyseFrom(parameters, idx + 1, required_params, exc, properties)
          ELSE IF ~has_default /\ required_params.none
          THEN \* "p_name not in required_params" on None
               [raised |-> "TypeError", required_params |-> required_params,
                properties |-> properties, analysed |-> idx]
          ELSE IF ~has_default /\ p.name \notin required_params.members /\ exc.none
          THEN \* "p_name not in exclude" on None
               [raised |-> "TypeError", required_params |-> required_params,
                properties |-> properties, analysed |-> idx]
          ELSE
            LET add == ~has_default /\ p.name \notin required_params.members
                                    /\ p.name \notin exc.members
                required2 == IF add
                             THEN SetOf(required_params.members \cup {p.name})
                             ELSE required_params
            IN  AnalyseFrom(parameters, idx + 1, required2, exc,
                            (p.name :> PropertyEntry(p)) @@ properties)

\* A reference to the caller's include object.
IncludeObject == "<the include object>"

\* The whole function.  required_params is the include object itself
\* (line 22), so what the loop adds to it is added to the caller's set, and
\* the schema's "required" entry (line 59) is a reference to that object.
convert_params_to_schema(parameters, inc, exc) ==
    IF OverlapError(inc, exc)
    THEN [raised |-> "ValueError", include |-> inc, analysed |-> 0,
          built |-> FALSE, schema |-> None]
    ELSE IF NotFoundError(parameters, inc)
    THEN [raised |-> "AttributeError", include |-> inc, analysed |-> 0,
          built |-> FALSE, schema |-> None]
    ELSE
      LET r == AnalyseFrom(parameters, 1, inc, exc, <<>>)
      IN  IF r.raised # "none"
          THEN [raised |-> r.raised, include |-> r.required_params,
                analysed |-> r.analysed, built |-> FALSE, schema |-> None]
          ELSE [raised |-> "none", include |-> r.required_params,
                analysed |-> r.analysed, built |-> TRUE,
                schema |-> [type |-> "object", properties |-> r.properties,
                            required |-> IncludeObject]]

\* lines 64-78
convert_to_gpt_func(func, desc, inc, exc) ==
    LET doc == IF desc # None THEN desc
               ELSE IF func.doc # None THEN func.doc ELSE func.name
        r == convert_params_to_schema(func.parameters, inc, exc)
    IN  [raised |-> r.raised, include |-> r.include, analysed |-> r.analysed,
         built |-> r.built,
         gpt_func |-> IF r.raised = "none"
                      THEN [name |-> func.name, description |-> doc,
                            parameters |-> r.schema]
                      ELSE None]

\* the wrapper class chosen without looking at the callable
WrapperClass_sync(func) == "_Wrapper"

\* line 127: the wrapper class chosen for func
WrapperClass(func) ==
    IF func.is_coroutine THEN "_AsyncWrapper" ELSE "_Wrapper"

\* The underlying callable is the caller's code: it is given one behaviour,
\* that of "lambda x: 10 // x", which raises on 0 and returns otherwise.
Body(func, args) ==
    IF args = 0 THEN [kind |-> "raise", value |-> "ZeroDivisionError"]
                ELSE [kind |-> "return", value |-> ToString(10 \div args)]

\* a body of __call__ that catches the callable's error and returns None
forward_swallow(func, args) ==
    [invoked |-> <<args>>,
     outcome |-> IF Body(func, args).kind = "raise"
                 THEN [kind |-> "return", value |-> None]
                 ELSE Body(func, args)]

\* lines 92-93 and 98: what running the body of __call__ does: the
\* invocations of self.func it makes, and what it hands back.
forward(func, args) ==
    [invoked |-> <<args>>, outcome |-> Body(func, args)]

\* ------------------------------------------------------------- the state
NoResult == [kind |-> "nocall", value |-> None, wrapper |-> 0, args |-> 0,
             awaited |-> FALSE]

Init ==
    /\ description = None
    /\ include \in ConfigSets
    /\ exclude \in ConfigSets
    /\ include0 = include
    /\ exclude0 = exclude
    /\ wrappers = <<>>
    /\ outcome = [raised |-> "nowrap", func |-> None, analysed |-> 0,
                  built |-> FALSE]
    /\ invocations = <<>>
    /\ coroutines = <<>>
    /\ result = NoResult

\* lines 126-129 with _Wrapper.__init__ (82-90): apply the decorator to func
Wrap(func) ==
    /\ Len(wrappers) < MaxWraps
    /\ LET r == convert_to_gpt_func(func, description, include, exclude)
       IN  /\ include' = r.include
           /\ outcome' = [raised |-> r.raised, func |-> func,
                          analysed |-> r.analysed, built |-> r.built]
           /\ wrappers' = IF r.raised = "none"
                          THEN Append(wrappers,
                                 [func |-> func, variant |-> WrapperClass(func),
                                  gpt_func |-> r.gpt_func])
                          ELSE wrappers
    /\ UNCHANGED <<description, exclude, include0, exclude0, invocations,
                   coroutines, result>>

\* number of wrapper calls made so far
CallsMade ==
    Len(coroutines)
    + Cardinality({k \in DOMAIN invocations : invocations[k].coroutine = 0})

Logged(w, c, invoked) ==
    [k \in 1..Len(invoked) |-> [wrapper |-> w, args |-> invoked[k], coroutine |-> c]]

\* lines 92-93: _Wrapper.__call__ of the w-th wrapper
Call(w, args) ==
    /\ CallsMade < MaxCalls
    /\ wrappers[w].variant = "_Wrapper"
    /\ LET r == forward(wrappers[w].func, args)
       IN  /\ invocations' = invocations \o Logged(w, 0, r.invoked)
           /\ result' = [kind |-> r.outcome.kind, value |-> r.outcome.value,
                         wrapper |-> w, args |-> args, awaited |-> FALSE]
    /\ UNCHANGED <<description, include, exclude, include0, exclude0, wrappers,
                   outcome, coroutines>>

\* line 97: calling _AsyncWrapper.__call__ runs none of its body; it returns
\* a new coroutine object
AsyncCall(w, args) ==
    /\ CallsMade < MaxCalls
    /\ wrappers[w].variant = "_AsyncWrapper"
    /\ coroutines' = Append(coroutines,
                            [wrapper |-> w, args |-> args, state |-> "created"])
    /\ result' = [kind |-> "coroutine", value |-> Len(coroutines) + 1,
                  wrapper |-> w, args |-> args, awaited |-> FALSE]
    /\ UNCHANGED <<description, include, exclude, include0, exclude0, wrappers,
                   outcome, invocations>>

\* line 98: the caller awaits the c-th coroutine, which runs the body
Await(c) ==
    /\ coroutines[c].state = "created"
    /\ LET co == coroutines[c]
           r == forward(wrappers[co.wrapper].func, co.args)
       IN  /\ invocations' = invocations \o Logged(co.wrapper, c, r.invoked)
           /\ result' = [kind |-> r.outcome.kind, value |-> r.outcome.value,
                         wrapper |-> co.wrapper, args |-> co.args,
                         awaited |-> TRUE]
    /\ coroutines' = [coroutines EXCEPT ![c].state = "finished"]
    /\ UNCHANGED <<description, include, exclude, include0, exclude0, wrappers,
                   outcome>>

Next ==
    \/ \E func \in Funcs : Wrap(func)
    \/ \E w \in DOMAIN wrappers, args \in Args : Call(w, args)
    \/ \E w \in DOMAIN wrappers, args \in Args : AsyncCall(w, args)
    \/ \E c \in DOMAIN coroutines : Await(c)

Spec == Init /\ [][Next]_vars

\* ------------------------------------------------------------ vocabulary
\* the decorator has been applied at least once
Wrapped == outcome.raised # "nowrap"

\* the latest application returned a wrapper (the last of wrappers)
Succeeded == outcome.raised = "none"

Last == wrappers[Len(wrappers)]

\* the names in the schema's "required" entry: the entry is a reference to
\* the include object, read as it is now (None has no names)
Required(w) ==
    IF wrappers[w].gpt_func.parameters.required = IncludeObject
    THEN include.members ELSE {}

RequiredIsNone(w) ==
    wrappers[w].gpt_func.parameters.required = IncludeObject /\ include.none

\* the keys of the schema's "properties" mapping
Keys(w) == DOMAIN wrappers[w].gpt_func.parameters.properties

\* the parameters that are analysed, and those of them without a default
AnalysedIdx(parameters) ==
    {i \in 1..Len(parameters) : ~Skipped(parameters, i)}

AnalysedNames(parameters) ==
    {parameters[i].name : i \in AnalysedIdx(parameters)}

NoDefaultNames(parameters) ==
    {parameters[i].name : i \in {j \in AnalysedIdx(parameters) :
                                   parameters[j].default = empty}}

\* the properties mapping of a callable: one entry per analysed parameter
PropertiesOf(parameters) ==
    [n \in AnalysedNames(parameters) |->
        PropertyEntry(parameters[CHOOSE i \in AnalysedIdx(parameters) :
                                    parameters[i].name = n])]

Shared(inc, exc) == inc.members \cap exc.members

\* ----------------------------------------------------------------- C1
\* C1: with neither include nor exclude supplied, wrapping a callable whose
\* analysed parameters mix parameters with and without defaults succeeds,
\* required is exactly the analysed parameters without a default and
\* properties has an entry for every analysed parameter.
C1_DefaultConfigSchema ==
    (/\ Wrapped
     /\ include0.none /\ exclude0.none
     /\ NoDefaultNames(outcome.func.parameters) # {}
     /\ NoDefaultNames(outcome.func.parameters)
          # AnalysedNames(outcome.func.parameters))
    => /\ Succeeded
       /\ ~RequiredIsNone(Len(wrappers))
       /\ Required(Len(wrappers)) = NoDefaultNames(outcome.func.parameters)
       /\ Keys(Len(wrappers)) = AnalysedNames(outcome.func.parameters)

\* ----------------------------------------------------------------- C2
\* C2: with an exclude set and include not supplied, every name in exclude
\* is absent from the properties keys and from required of every schema
\* produced, and (a, b=1) with exclude={b} yields properties keys {a} and
\* required {a}.
C2_ExcludedAbsent ==
    (Wrapped /\ include0.none /\ ~exclude0.none)
    => /\ Succeeded =>
            \A n \in exclude.members :
                n \notin Keys(Len(wrappers)) /\ n \notin Required(Len(wrappers))
       /\ (outcome.func.parameters = SigAB /\ exclude.members = {"b"})
            => /\ Succeeded
               /\ Keys(Len(wrappers)) = {"a"}
               /\ Required(Len(wrappers)) = {"a"}

\* ----------------------------------------------------------------- C3
\* C3: with an include set of declared parameters and exclude not supplied,
\* wrapping succeeds, required is the analysed parameters without a default
\* united with include, and properties is the mapping the callable has
\* without include.
C3_IncludeForcesRequired ==
    (/\ Wrapped
     /\ ~include0.none /\ exclude0.none
     /\ include0.members \subseteq ParamNamesOf(outcome.func.parameters))
    => /\ Succeeded
       /\ Required(Len(wrappers))
            = NoDefaultNames(outcome.func.parameters) \cup include0.members
       /\ Last.gpt_func.parameters.properties
            = PropertiesOf(outcome.func.parameters)

\* ----------------------------------------------------------------- C4
\* C4: when include and exclude share a name, every application of the
\* decorator raises the configuration error before any parameter is analysed
\* or any schema is built; no wrapper is ever returned, so no wrapper call
\* ever happens.
C4_OverlapRaises ==
    Shared(include0, exclude0) # {}
    => /\ wrappers = <<>>
       /\ outcome.raised \in {"nowrap", "ValueError"}
       /\ outcome.analysed = 0
       /\ ~outcome.built
       /\ result.kind = "nocall"
       /\ coroutines = <<>>

\* the error was raised for a shared name the callable does not declare
C4_Witness ==
    /\ outcome.raised = "ValueError"
    /\ \E n \in Shared(include0, exclude0) :
          n \notin ParamNamesOf(outcome.func.parameters)

\* ----------------------------------------------------------------- C5
\* C5: an application of the decorator whose include set (as it is when the
\* decorator is applied, and not overlapping exclude) holds a name the
\* callable does not declare raises the not-found error and returns no
\* wrapper and builds no schema; when every name of include is declared, the
\* not-found error is not raised.
C5_NotFound ==
    [][ ((outcome' # outcome \/ wrappers' # wrappers)
         /\ Shared(include, exclude) = {})
        => LET undeclared ==
                 include.members \ ParamNamesOf(outcome'.func.parameters)
           IN  /\ undeclared # {}
                    => /\ outcome'.raised = "AttributeError"
                       /\ wrappers' = wrappers
                       /\ ~outcome'.built
               /\ undeclared = {} => outcome'.raised # "AttributeError" ]_vars

C5_Witness ==
    /\ outcome.raised = "AttributeError"
    /\ Shared(include, exclude) = {}
    /\ include.members \ ParamNamesOf(outcome.func.parameters) # {}

\* ----------------------------------------------------------------- C6
\* C6: in every schema produced, every name of required is a key of
\* properties.
C6_RequiredInProperties ==
    \A w \in DOMAIN wrappers : Required(w) \subseteq Keys(w)

\* ----------------------------------------------------------------- C7
\* C7: every application of the decorator leaves the caller's include and
\* exclude sets as they were, and ends as the application of a decorator
\* created with the original configuration would.
C7_ConfigUntouched ==
    [][ /\ include' = include
        /\ exclude' = exclude
        /\ outcome' # outcome
             => outcome'.raised
                  = convert_params_to_schema(outcome'.func.parameters,
                                             include0, exclude0).raised ]_vars

\* ----------------------------------------------------------------- C8
\* C8: a wrapper call that hands back a result or an error has invoked the
\* underlying callable exactly once, with the arguments of the call, and
\* hands back what the callable returned or raised; a call that hands back a
\* coroutine has not invoked it.
C8_PassThrough ==
    [][ \/ UNCHANGED <<invocations, result>>
        \/ /\ result'.kind = "coroutine"
           /\ invocations' = invocations
        \/ /\ result'.kind \in {"return", "raise"}
           /\ Len(invocations') = Len(invocations) + 1
           /\ SubSeq(invocations', 1, Len(invocations)) = invocations
           /\ invocations'[Len(invocations')].wrapper = result'.wrapper
           /\ invocations'[Len(invocations')].args = result'.args
           /\ [kind |-> result'.kind, value |-> result'.value]
                = Body(wrappers[result'.wrapper].func, result'.args) ]_vars

\* the underlying callable raised and the wrapper call raised the same error
C8_Witness ==
    /\ result.kind = "raise"
    /\ result.value = "ZeroDivisionError"
    /\ Len(invocations) = 1

\* ----------------------------------------------------------------- C9
\* C9: a first parameter that is not a collector is omitted from properties
\* and required exactly when it is named self or cls and its annotation is a
\* class; a parameter named self or cls at a later position is analysed like
\* any other parameter.
IsClass(annotation) == annotation \in {empty, "class", "enum"}

C9_ReceiverOmitted ==
    Succeeded
    => LET ps == outcome.func.parameters
           first == ps[1]
           w == Len(wrappers)
       IN  /\ first.kind \notin {VAR_POSITIONAL, VAR_KEYWORD}
                => ((first.name \notin Keys(w) /\ first.name \notin Required(w))
                    <=> (first.name \in {"self", "cls"}
                         /\ IsClass(first.annotation)))
           /\ \A i \in 2..Len(ps) :
                (ps[i].name \in {"self", "cls"}
                 /\ ps[i].kind \notin {VAR_POSITIONAL, VAR_KEYWORD})
                => ps[i].name \in Keys(w)

\* ---------------------------------------------------------------- C10
\* C10: a wrapper is the asynchronous variant exactly when its callable is
\* asynchronous; a result handed back without awaiting comes from a
\* synchronous callable; the call of the wrapper of an asynchronous callable
\* hands back a coroutine, the callable has not been invoked for a coroutine
\* not yet awaited, and its result is delivered by the await.
C10_Variant ==
    /\ \A w \in DOMAIN wrappers :
          (wrappers[w].variant = "_AsyncWrapper") <=> wrappers[w].func.is_coroutine
    /\ result.kind \in {"return", "raise"}
          => (result.awaited <=> wrappers[result.wrapper].func.is_coroutine)
    /\ result.kind = "coroutine"
          => /\ wrappers[result.wrapper].func.is_coroutine
             /\ result.value \in DOMAIN coroutines
    /\ \A c \in DOMAIN coroutines :
          /\ wrappers[coroutines[c].wrapper].func.is_coroutine
          /\ Cardinality({k \in DOMAIN invocations : invocations[k].coroutine = c})
               = (IF coroutines[c].state = "created" THEN 0 ELSE 1)

\* a coroutine was handed back and is not yet awaited
C10_Witness ==
    /\ result.kind = "coroutine"
    /\ coroutines[result.value].state = "created"
    /\ invocations = <<>>
====
